---- MODULE Spec2Model ----
(***************************************************************************)
(* Model of the knit dependency-injection container                        *)
(* (knit-di/src/container.ts).                                             *)
(*                                                                         *)
(* A Container owns two maps: `dependencies` (token -> stored provider)    *)
(* and `instances` (token -> cached singleton).  provide / register /      *)
(* resolve are synchronous; a call to resolve runs the stored provider,    *)
(* which may call resolve again (constructor parameters, or a user         *)
(* provider that calls back into the container).  Each call of the public  *)
(* API is one action; the nested calls it makes are computed by the        *)
(* recursive operators below, which thread the mutable state through the   *)
(* call tree in the order the code evaluates it.                           *)
(***************************************************************************)
EXTENDS Integers, Sequences, FiniteSets, TLC

\* ---------------------------------------------------------------- bounds
MaxContainers == 2      \* the global container plus those from newContainer()
MaxCalls == 4           \* provide/register/resolve calls made by the client
MaxDepth == 5           \* nested resolve calls the call stack has room for

\* ---------------------------------------------------------------- values
\* Scope enum (types.ts, used at container.ts:41-47)
Singleton == "Singleton"
Prototype == "Prototype"
Scope == {Singleton, Prototype}
\* provide called with two arguments: the scope parameter takes its default
Unspecified == "unspecified"

\* JavaScript values that flow through the container: `undefined` and
\* references to objects on the heap (positive integers).
Undefined == 0
\* Map.prototype.has(type) = false
NotCached == -1
\* an empty slot of a sparse array: of tokens, and of resolved values
Hole == "<empty>"
EmptySlot == -2

\* Tokens: constructible types and one named token.
\*   A = EmailService (no dependencies), B = MyApplication(a: A),
\*   C = a type (b: B, a: A) whose parameter 0 is bound to the named token,
\*   D = a type (a: A) carrying a token for parameter index 2,
\*   E = a type (e: E) whose constructor asks for an E.
TypeTokens == {"A", "B", "C", "D", "E"}
NamedTokens == {"N"}
Tokens == TypeTokens \cup NamedTokens

\* Reflect.getOwnMetadata("design:paramtypes", ctor) || []
ParamTypes(ctor) ==
  CASE ctor = "B" -> <<"A">>
    [] ctor = "C" -> <<"B", "A">>
    [] ctor = "D" -> <<"A">>
    [] ctor = "E" -> <<"E">>
    [] OTHER -> <<>>

\* Reflect.getOwnMetadata(TOKEN_KEY, ctor) || {}   (keys are 0-based indices)
InjectionTokens(ctor) ==
  CASE ctor = "C" -> (0 :> "N")
    [] ctor = "D" -> (2 :> "N")
    [] OTHER -> [i \in {} |-> "N"]

\* Providers a client hands to provide(): a factory of fresh objects, a
\* factory returning undefined, a factory that on its first run calls
\* container.resolve(token) for its own token before returning a fresh
\* object, and a factory that throws on its first run and returns a fresh
\* object afterwards.  "create" is the closure () => this.create(type) of
\* register().
CustomProviders == {"fresh", "undef", "reenter", "throwOnce"}

\* `${type.name}` in the message of resolve's error (container.ts:23): the
\* name of a constructor, and "undefined" for a string token, which has no
\* property `name`
NameOf(type) == IF type \in TypeTokens THEN type ELSE "undefined"

NoProvider == [singleton |-> FALSE, kind |-> "none"]

Max(a, b) == IF a >= b THEN a ELSE b

RECURSIVE MaxOf(_)
MaxOf(S) == IF S = {} THEN -1
            ELSE LET x == CHOOSE y \in S : TRUE IN Max(x, MaxOf(S \ {x}))

\* ---------------------------------------------------------------- state
VARIABLES
  containers,    \* the Container objects that exist (1 is Container.instance)
  dependencies,  \* dependencies[c][token]: the stored provider
  instances,     \* instances[c][token]: the singleton cache
  heap,          \* objects built so far: heap[ref] = [ctor, args]
  fired,         \* fired[c][token]: the provider's closure has run once
  calls,         \* number of provide/register/resolve calls made so far
  last,          \* the last API call and its outcome
  trace,         \* the events of the last API call, in execution order
  invoked,       \* invoked[c][token]: raw provider invocations so far
  returned,      \* returned[c][token]: values returned by resolve so far
  scopeArg       \* scopeArg[c][token]: the scope argument of the call that
                 \* registered the token ("" while it has no provider)

vars == <<containers, dependencies, instances, heap, fired, calls, last,
          trace, invoked, returned, scopeArg>>

AllContainers == 1..MaxContainers

Init ==
  /\ containers = {1}
  /\ dependencies = [c \in AllContainers |-> [t \in Tokens |-> NoProvider]]
  /\ instances = [c \in AllContainers |-> [t \in Tokens |-> NotCached]]
  /\ heap = <<>>
  /\ fired = [c \in AllContainers |-> [t \in Tokens |-> FALSE]]
  /\ calls = 0
  /\ last = [op |-> "none", c |-> 0, tok |-> "", outcome |-> "", val |-> Undefined, err |-> ""]
  /\ trace = <<>>
  /\ invoked = [c \in AllContainers |-> [t \in Tokens |-> 0]]
  /\ returned = [c \in AllContainers |-> [t \in Tokens |-> <<>>]]
  /\ scopeArg = [c \in AllContainers |-> [t \in Tokens |-> ""]]

\* ------------------------------------------------------- the call tree
\* The mutable state a call works on, threaded through nested calls.
\* `depth` is the number of resolve calls on the call stack.
Machine == [instances |-> instances, heap |-> heap, fired |-> fired,
            trace |-> <<>>, invoked |-> invoked, returned |-> returned,
            depth |-> 0]

Event(ev, c, tok, val, depth) ==
  [ev |-> ev, c |-> c, tok |-> tok, val |-> val, depth |-> depth]

Log(m, ev, c, tok, val) ==
  [m EXCEPT !.trace = Append(@, Event(ev, c, tok, val, m.depth))]

\* a call that returns `val`, and a call that throws: `why` is the kind of
\* error ("unregistered" from resolve, "threw" from a client's provider,
\* "overflow" from the exhausted call stack) and `err` what its message names
Return(m, val) == [m |-> m, ok |-> TRUE, val |-> val, why |-> "", err |-> ""]
Throw(m, why, err) == [m |-> m, ok |-> FALSE, val |-> Undefined, why |-> why, err |-> err]

\* `new ctor(...args)`: allocates the next object
New(m, c, ctor, args) ==
  LET ref == Len(m.heap) + 1
      m1 == [m EXCEPT !.heap = Append(@, [ctor |-> ctor, args |-> args])]
  IN Return(Log(m1, "new", c, ctor, ref), ref)

\* getParams without the injection tokens
getParams_DeclaredOnly(ctor) == ParamTypes(ctor)

\* getParams that drops the injection tokens whose index is past the declared
\* parameters
getParams_InRangeOnly(ctor) ==
  LET params == ParamTypes(ctor)
      injectionTokens == InjectionTokens(ctor)
  IN [i \in 1..Len(params) |->
        IF (i - 1) \in DOMAIN injectionTokens THEN injectionTokens[i - 1]
        ELSE params[i]]

\* getParams (container.ts:62-68): the declared parameter types with each
\* injection token written at its index.  Writing past the end of a
\* JavaScript array extends it; the slots in between stay empty.
getParams(ctor) ==
  LET params == ParamTypes(ctor)
      injectionTokens == InjectionTokens(ctor)
      length == Max(Len(params), MaxOf(DOMAIN injectionTokens) + 1)
  IN [i \in 1..length |->
        IF (i - 1) \in DOMAIN injectionTokens THEN injectionTokens[i - 1]
        ELSE IF i <= Len(params) THEN params[i]
        ELSE Hole]

\* the spread `...array` of a sparse array reads an empty slot as undefined
Spread(array) ==
  [i \in 1..Len(array) |-> IF array[i] = EmptySlot THEN Undefined ELSE array[i]]

RECURSIVE resolve(_, _, _)
RECURSIVE storedProvider(_, _, _)
RECURSIVE singletonProvider(_, _, _)
RECURSIVE rawProvider(_, _, _)
RECURSIVE create(_, _, _)
RECURSIVE mapResolve(_, _, _, _, _)

\* resolve without the check for a missing provider
resolve_Unchecked(m, c, type) ==
  LET m1 == Log([m EXCEPT !.depth = @ + 1], "resolve", c, type, Undefined)
      r == IF dependencies[c][type] = NoProvider
           THEN Return(m1, Undefined)
           ELSE storedProvider(m1, c, type)
  IN IF r.ok
     THEN Return([Log(r.m, "return", c, type, r.val)
                    EXCEPT !.returned[c][type] = Append(@, r.val),
                           !.depth = @ - 1],
                 r.val)
     ELSE r

\* a resolve that refuses a token whose resolution is already under way
resolve_DetectsCycles(m, c, type) ==
  LET open == {i \in DOMAIN m.trace : /\ m.trace[i].ev = "resolve"
                                      /\ m.trace[i].c = c
                                      /\ m.trace[i].tok = type}
      closed == {i \in DOMAIN m.trace : /\ m.trace[i].ev = "return"
                                        /\ m.trace[i].c = c
                                        /\ m.trace[i].tok = type}
      m1 == Log([m EXCEPT !.depth = @ + 1], "resolve", c, type, Undefined)
  IN IF Cardinality(open) > Cardinality(closed)
     THEN Throw(Log(m1, "throw", c, type, Undefined), "cycle", NameOf(type))
     ELSE IF dependencies[c][type] = NoProvider
     THEN Throw(Log(m1, "throw", c, type, Undefined), "unregistered", NameOf(type))
     ELSE LET r == storedProvider(m1, c, type)
          IN IF r.ok
             THEN Return([Log(r.m, "return", c, type, r.val)
                            EXCEPT !.returned[c][type] = Append(@, r.val),
                                   !.depth = @ - 1],
                         r.val)
             ELSE r

\* resolve (container.ts:20-26).  A call for which the stack has no room
\* left throws RangeError.
resolve(m, c, type) ==
  LET m1 == Log([m EXCEPT !.depth = @ + 1], "resolve", c, type, Undefined)
  IN IF m.depth >= MaxDepth
     THEN Throw(Log(m, "overflow", c, type, Undefined), "overflow", "RangeError")
     ELSE IF dependencies[c][type] = NoProvider
     THEN Throw(Log(m1, "throw", c, type, Undefined), "unregistered", NameOf(type))
     ELSE LET r == storedProvider(m1, c, type)
          IN IF r.ok
             THEN Return([Log(r.m, "return", c, type, r.val)
                            EXCEPT !.returned[c][type] = Append(@, r.val),
                                   !.depth = @ - 1],
                         r.val)
             ELSE r

\* a lookup that hands out the raw provider whatever the scope
storedProvider_NeverMemoized(m, c, type) == rawProvider(m, c, type)

\* a provide() that wraps every provider in the memoizing closure
storedProvider_AlwaysMemoized(m, c, type) == singletonProvider(m, c, type)

\* the function provide() stored for the token (container.ts:41-48)
storedProvider(m, c, type) ==
  IF dependencies[c][type].singleton
  THEN singletonProvider(m, c, type)
  ELSE rawProvider(m, c, type)

\* a memoizing closure that never stores what the provider returns
singletonProvider_Uncached(m, c, type) == rawProvider(m, c, type)

\* a memoizing closure over one cache shared by all containers
singletonProvider_SharedCache(m, c, type) ==
  IF m.instances[1][type] = NotCached
  THEN LET r == rawProvider(m, c, type)
       IN IF r.ok
          THEN Return([Log(r.m, "store", c, type, r.val)
                         EXCEPT !.instances[1][type] = r.val],
                      r.val)
          ELSE r
  ELSE Return(m, m.instances[1][type])

\* a memoizing closure that reserves the cache entry before it calls the
\* provider and fills it when the provider returns
singletonProvider_StoreBeforeCall(m, c, type) ==
  IF m.instances[c][type] = NotCached
  THEN LET m1 == [Log(m, "store", c, type, Undefined)
                    EXCEPT !.instances[c][type] = Undefined]
           r == rawProvider(m1, c, type)
       IN IF r.ok
          THEN Return([Log(r.m, "store", c, type, r.val)
                         EXCEPT !.instances[c][type] = r.val],
                      r.val)
          ELSE r
  ELSE Return(m, m.instances[c][type])

\* a memoizing closure that caches undefined when the provider throws
singletonProvider_StoreOnThrow(m, c, type) ==
  IF m.instances[c][type] = NotCached
  THEN LET r == rawProvider(m, c, type)
       IN IF r.ok
          THEN Return([Log(r.m, "store", c, type, r.val)
                         EXCEPT !.instances[c][type] = r.val],
                      r.val)
          ELSE [r EXCEPT !.m = [Log(r.m, "store", c, type, Undefined)
                                  EXCEPT !.instances[c][type] = Undefined]]
  ELSE Return(m, m.instances[c][type])

\* the closure returned by singletonProvider (container.ts:29-34)
singletonProvider(m, c, type) ==
  IF m.instances[c][type] = NotCached
  THEN LET r == rawProvider(m, c, type)
       IN IF r.ok
          THEN Return([Log(r.m, "store", c, type, r.val)
                         EXCEPT !.instances[c][type] = r.val],
                      r.val)
          ELSE r
  ELSE Return(m, m.instances[c][type])

\* the provider handed to provide(): a client factory, or the closure
\* () => this.create(type) that register() builds (container.ts:52)
\* a raw provider that constructs every type token through the resolver,
\* whatever provider was given for it
rawProvider_AlwaysCreate(m, c, type) ==
  LET m1 == [Log(m, "invoke", c, type, Undefined)
               EXCEPT !.invoked[c][type] = @ + 1]
  IN IF type \in TypeTokens
     THEN create(m1, c, type)
     ELSE New(m1, c, "Object", <<>>)

\* the provider stored for `type` (container.ts:43, 47): the one handed to
\* provide, or this.create for a type registered through register
rawProvider(m, c, type) ==
  LET kind == dependencies[c][type].kind
      m1 == [Log(m, "invoke", c, type, Undefined)
               EXCEPT !.invoked[c][type] = @ + 1]
  IN CASE kind = "create" -> create(m1, c, type)
       [] kind = "fresh" -> New(m1, c, "Object", <<>>)
       [] kind = "undef" -> Return(m1, Undefined)
       [] kind = "reenter" ->
            IF m1.fired[c][type]
            THEN New(m1, c, "Object", <<>>)
            ELSE LET r == resolve([m1 EXCEPT !.fired[c][type] = TRUE], c, type)
                 IN IF r.ok THEN New(r.m, c, "Object", <<>>) ELSE r
       [] kind = "throwOnce" ->
            IF m1.fired[c][type]
            THEN New(m1, c, "Object", <<>>)
            ELSE Throw(Log([m1 EXCEPT !.fired[c][type] = TRUE],
                           "raise", c, type, Undefined),
                       "threw", "provider")

\* create (container.ts:55-60)
create(m, c, ctor) ==
  LET params == getParams(ctor)
      r == mapResolve(m, c, params, 1, <<>>)
  IN IF r.ok THEN New(r.m, c, ctor, Spread(r.args)) ELSE r

\* a map that resolves the parameters from the last to the first
mapResolve_RightToLeft(m, c, params, i, args) ==
  IF i > Len(params)
  THEN [m |-> m, ok |-> TRUE, val |-> Undefined, why |-> "", err |-> "",
        args |-> args]
  ELSE LET j == Len(params) - i + 1
       IN IF params[j] = Hole
          THEN mapResolve(m, c, params, i + 1, <<EmptySlot>> \o args)
          ELSE LET r == resolve(m, c, params[j])
               IN IF r.ok
                  THEN mapResolve(r.m, c, params, i + 1, <<r.val>> \o args)
                  ELSE r

\* params.map(dependency => this.resolve(dependency)) (container.ts:58):
\* left to right, skipping empty slots, stopping at the first throw
mapResolve(m, c, params, i, args) ==
  IF i > Len(params)
  THEN [m |-> m, ok |-> TRUE, val |-> Undefined, why |-> "", err |-> "",
        args |-> args]
  ELSE IF params[i] = Hole
  THEN mapResolve(m, c, params, i + 1, Append(args, EmptySlot))
  ELSE LET r == resolve(m, c, params[i])
       IN IF r.ok
          THEN mapResolve(r.m, c, params, i + 1, Append(args, r.val))
          ELSE r

\* ------------------------------------------------------------- actions
Outcome(op, c, tok, outcome, val, err) ==
  [op |-> op, c |-> c, tok |-> tok, outcome |-> outcome, val |-> val, err |-> err]

\* Container.newContainer() (container.ts:11-13); Container.getInstance()
\* (container.ts:7-9) returns container 1 and changes nothing.
NewContainer ==
  /\ Cardinality(containers) < MaxContainers
  /\ containers' = containers \cup {Cardinality(containers) + 1}
  /\ last' = Outcome("newContainer", Cardinality(containers) + 1, "", "ok", Undefined, "")
  /\ trace' = <<>>
  /\ UNCHANGED <<dependencies, instances, heap, fired, calls, invoked, returned,
                 scopeArg>>

\* a scope parameter that defaults to Prototype
DefaultScope_Prototype(scope) == IF scope = Unspecified THEN Prototype ELSE scope

\* the default of provide's scope parameter (container.ts:37)
DefaultScope(scope) == IF scope = Unspecified THEN Singleton ELSE scope

\* provide without the check for an existing provider
provide_Overwrite(c, type, kind, scope) ==
  /\ calls' = calls + 1
  /\ trace' = <<>>
  /\ last' = Outcome("provide", c, type, "ok", Undefined, "")
  /\ dependencies' =
       [dependencies EXCEPT
          ![c][type] = [singleton |-> (DefaultScope(scope) = Singleton),
                        kind |-> kind]]
  /\ scopeArg' = [scopeArg EXCEPT ![c][type] = scope]
  /\ UNCHANGED <<containers, instances, heap, fired, invoked, returned>>

\* provide that stores the new provider before it reports the duplicate
provide_StoreThenThrow(c, type, kind, scope) ==
  /\ calls' = calls + 1
  /\ trace' = <<>>
  /\ last' = Outcome("provide", c, type,
                     IF dependencies[c][type] # NoProvider THEN "duplicate" ELSE "ok",
                     Undefined, "")
  /\ dependencies' =
       [dependencies EXCEPT
          ![c][type] = [singleton |-> (DefaultScope(scope) = Singleton),
                        kind |-> kind]]
  /\ scopeArg' = [scopeArg EXCEPT ![c][type] = scope]
  /\ UNCHANGED <<containers, instances, heap, fired, invoked, returned>>

\* provide that runs the provider of a Singleton when it registers it
provide_Eager(c, type, kind, scope) ==
  /\ calls' = calls + 1
  /\ trace' = <<>>
  /\ IF dependencies[c][type] # NoProvider
     THEN /\ last' = Outcome("provide", c, type, "duplicate", Undefined, type)
          /\ UNCHANGED <<dependencies, scopeArg, invoked>>
     ELSE /\ last' = Outcome("provide", c, type, "ok", Undefined, "")
          /\ dependencies' =
               [dependencies EXCEPT
                  ![c][type] = [singleton |-> (DefaultScope(scope) = Singleton),
                                kind |-> kind]]
          /\ scopeArg' = [scopeArg EXCEPT ![c][type] = scope]
          /\ invoked' = [invoked EXCEPT ![c][type] =
                           IF DefaultScope(scope) = Singleton THEN @ + 1 ELSE @]
  /\ UNCHANGED <<containers, instances, heap, fired, returned>>

\* provide (container.ts:37-49) with the provider `kind`
provide(c, type, kind, scope) ==
  /\ calls' = calls + 1
  /\ trace' = <<>>
  /\ IF dependencies[c][type] # NoProvider
     THEN /\ last' = Outcome("provide", c, type, "duplicate", Undefined, type)
          /\ UNCHANGED <<dependencies, scopeArg>>
     ELSE /\ last' = Outcome("provide", c, type, "ok", Undefined, "")
          /\ dependencies' =
               [dependencies EXCEPT
                  ![c][type] = [singleton |-> (DefaultScope(scope) = Singleton),
                                kind |-> kind]]
          /\ scopeArg' = [scopeArg EXCEPT ![c][type] = scope]
  /\ UNCHANGED <<containers, instances, heap, fired, invoked, returned>>

\* what the clients of the global container pass to provide(): the named
\* token with three kinds of provider, and two type tokens with a factory
CustomInputs == {<<"N", "fresh">>, <<"N", "undef">>, <<"N", "reenter">>,
                 <<"A", "fresh">>, <<"A", "throwOnce">>, <<"B", "fresh">>}

\* what the clients of several containers pass to provide() and register()
SharedInputs == {<<"N", "fresh">>}
SharedTypes == {"A", "B"}
SharedTokens == {"A", "B", "N"}

\* a client calls provide(type, provider, scope)
Provide(inputs) ==
  /\ calls < MaxCalls
  /\ \E c \in containers, in \in inputs, scope \in Scope \cup {Unspecified} :
       provide(c, in[1], in[2], scope)

\* register (container.ts:51-53)
Register(types) ==
  /\ calls < MaxCalls
  /\ \E c \in containers, type \in types, scope \in Scope :
       provide(c, type, "create", scope)

\* a client calls resolve(type) (container.ts:20-26)
Resolve(tokens) ==
  /\ calls < MaxCalls
  /\ \E c \in containers, type \in tokens :
       LET r == resolve(Machine, c, type)
       IN /\ instances' = r.m.instances
          /\ heap' = r.m.heap
          /\ fired' = r.m.fired
          /\ trace' = r.m.trace
          /\ invoked' = r.m.invoked
          /\ returned' = r.m.returned
          /\ last' = IF r.ok
                     THEN Outcome("resolve", c, type, "ok", r.val, "")
                     ELSE Outcome("resolve", c, type, r.why, Undefined, r.err)
  /\ calls' = calls + 1
  /\ UNCHANGED <<containers, dependencies, scopeArg>>

Next == Provide(CustomInputs) \/ Register(TypeTokens) \/ Resolve(Tokens)

\* the global container alone, with every token and provider
Spec == Init /\ [][Next]_vars

NextContainers ==
  \/ NewContainer
  \/ Provide(SharedInputs)
  \/ Register(SharedTypes)
  \/ Resolve(SharedTokens)

\* the global container and the containers made by newContainer()
SpecContainers == Init /\ [][NextContainers]_vars

TypeOK ==
  /\ containers \subseteq AllContainers
  /\ \A c \in AllContainers, t \in Tokens :
       /\ instances[c][t] \in {NotCached, Undefined} \cup (1..Len(heap))
       /\ invoked[c][t] \in Nat

\* ------------------------------------------------------ properties
Registered(c, t) == dependencies[c][t] # NoProvider
IsSingleton(c, t) == Registered(c, t) /\ dependencies[c][t].singleton
IsPrototype(c, t) == Registered(c, t) /\ ~dependencies[c][t].singleton

\* the positions of the events `ev` of token t in container c in the last call
Events(ev, c, t) ==
  {i \in DOMAIN trace : trace[i].ev = ev /\ trace[i].c = c /\ trace[i].tok = t}

\* the last call was made by a client on container c for token t
Called(op, c, t) == last.op = op /\ last.c = c /\ last.tok = t

\* C1: every successful resolve(t) of a token registered as Singleton returns
\* the identical instance, whatever calls are made in between.
C1_SingletonIdentity ==
  \A c \in containers, t \in Tokens :
    IsSingleton(c, t) =>
      \A i, j \in DOMAIN returned[c][t] : returned[c][t][i] = returned[c][t][j]

\* C1, for the providers that do not call back into resolve for their own
\* token: recorded to show what the violation of C1 rests on.
C1_SingletonIdentityNoReentry ==
  \A c \in containers, t \in Tokens :
    (IsSingleton(c, t) /\ dependencies[c][t].kind # "reenter") =>
      \A i, j \in DOMAIN returned[c][t] : returned[c][t][i] = returned[c][t][j]

\* a provider that returns normally whenever it is invoked: a client factory,
\* or the constructor of a type without parameters
ReturnsNormally(c, t) ==
  \/ dependencies[c][t].kind \in {"fresh", "undef", "reenter"}
  \/ dependencies[c][t].kind = "create" /\ ParamTypes(t) = <<>>

\* C2, for the providers that do not call back into resolve for their own
\* token: recorded to show what the violation of C2 rests on.
C2_ProviderInvokedOnceNoReentry ==
  \A c \in containers, t \in Tokens :
    ( /\ IsSingleton(c, t) /\ ReturnsNormally(c, t)
      /\ dependencies[c][t].kind # "reenter"
      /\ Len(returned[c][t]) >= 1 ) =>
      invoked[c][t] = 1

\* C2: the raw provider of a Singleton token that returns normally is invoked
\* exactly once over any sequence of one or more resolve(t) calls.
C2_ProviderInvokedOnce ==
  \A c \in containers, t \in Tokens :
    (IsSingleton(c, t) /\ ReturnsNormally(c, t) /\ Len(returned[c][t]) >= 1) =>
      invoked[c][t] = 1

\* C3: once provide(t) or register(t) has succeeded, every later provide(t) or
\* register(t) on that container fails as a duplicate and changes nothing,
\* whatever its scope or provider and whether or not t was resolved in between.
C3_DuplicateRegistrationFails ==
  [][\A c \in containers, t \in Tokens :
       /\ (Called("provide", c, t)' /\ last'.outcome = "ok" /\ calls' = calls + 1)
             => (~Registered(c, t) /\ Registered(c, t)')
       /\ Registered(c, t) =>
            /\ Registered(c, t)'
            /\ (Called("provide", c, t)' /\ calls' = calls + 1) =>
                  /\ last'.outcome = "duplicate"
                  /\ dependencies' = dependencies]_vars

\* a second registration of a token that was resolved in between has failed
C3_Witness ==
  \E c \in containers, t \in Tokens :
    /\ Called("provide", c, t)
    /\ last.outcome = "duplicate"
    /\ Len(returned[c][t]) >= 1

\* C4: resolve(t) of a token that was never provided or registered fails with
\* the unregistered-token error, invokes no provider and constructs nothing.
C4_UnregisteredResolveFails ==
  [][\A c \in containers, t \in Tokens :
       (Called("resolve", c, t)' /\ calls' = calls + 1 /\ ~Registered(c, t)) =>
          /\ last'.outcome = "unregistered"
          /\ trace' = <<Event("resolve", c, t, Undefined, 1),
                        Event("throw", c, t, Undefined, 1)>>
          /\ heap' = heap
          /\ invoked' = invoked
          /\ instances' = instances]_vars

\* resolve of an unregistered token has failed while other providers exist
C4_Witness ==
  \E c \in containers, t, u \in Tokens :
    /\ Called("resolve", c, t)
    /\ ~Registered(c, t)
    /\ last.outcome = "unregistered"
    /\ Registered(c, u)

\* the value the last `new` of the last call produced
LastNew ==
  LET news == {i \in DOMAIN trace : trace[i].ev = "new"}
  IN IF news = {} THEN Undefined ELSE trace[MaxOf(news)].val

\* C5: each resolve(t) of a Prototype token invokes the raw provider exactly
\* once and returns that invocation's result, nothing is cached for t, and a
\* provider of fresh objects never returns the same instance twice.
C5_PrototypeFreshEachResolve ==
  \A c \in containers, t \in Tokens :
    IsPrototype(c, t) =>
      /\ instances[c][t] = NotCached
      /\ Cardinality(Events("invoke", c, t)) = Cardinality(Events("resolve", c, t))
      /\ \A i \in Events("resolve", c, t) :
           /\ i < Len(trace)
           /\ trace[i + 1] = Event("invoke", c, t, Undefined, trace[i].depth)
      /\ (Called("resolve", c, t) /\ last.outcome = "ok") =>
           /\ trace[Len(trace)] = Event("return", c, t, last.val, 1)
           /\ last.val = IF dependencies[c][t].kind = "undef"
                         THEN Undefined ELSE LastNew
      /\ dependencies[c][t].kind # "undef" =>
           \A i, j \in DOMAIN returned[c][t] :
              i # j => returned[c][t][i] # returned[c][t][j]

\* a Prototype token has been resolved twice by the client
C5_Witness ==
  \E c \in containers, t \in Tokens :
    /\ IsPrototype(c, t)
    /\ dependencies[c][t].kind = "fresh"
    /\ Called("resolve", c, t)
    /\ Len(returned[c][t]) = 2

\* the call of create(ctor) that ended with the `new` at position i of the
\* trace: the position of its provider's invocation, the tokens it resolved
\* itself (not those resolved further down), and the values they returned
InvokeOf(i) ==
  MaxOf({j \in 1..(i - 1) : /\ trace[j].ev = "invoke"
                            /\ trace[j].tok = trace[i].tok
                            /\ trace[j].c = trace[i].c
                            /\ trace[j].depth = trace[i].depth})

DirectEvents(i, ev) ==
  SelectSeq(SubSeq(trace, InvokeOf(i) + 1, i - 1),
            LAMBDA e : e.ev = ev /\ e.depth = trace[i].depth + 1)

DirectTokens(i) == [k \in DOMAIN DirectEvents(i, "resolve") |->
                      DirectEvents(i, "resolve")[k].tok]
DirectValues(i) == [k \in DOMAIN DirectEvents(i, "return") |->
                      DirectEvents(i, "return")[k].val]

Constructions(ctor) ==
  {i \in DOMAIN trace : trace[i].ev = "new" /\ trace[i].tok = ctor}

RegisteredAs(c, t, scope) ==
  dependencies[c][t] = [singleton |-> (scope = Singleton), kind |-> "create"]

\* C6: with A and B(a: A) both registered through register as Singleton, the A
\* held by every resolve(B) is the instance every resolve(A) returns,
\* whichever of the two is resolved first.
C6_InjectedSingletonShared ==
  \A c \in containers :
    (RegisteredAs(c, "A", Singleton) /\ RegisteredAs(c, "B", Singleton)) =>
      \A i \in DOMAIN returned[c]["B"], j \in DOMAIN returned[c]["A"] :
         /\ heap[returned[c]["B"][i]].ctor = "B"
         /\ heap[returned[c]["B"][i]].args = <<returned[c]["A"][j]>>

\* B was resolved first, and the client has then resolved A
C6_Witness ==
  \E c \in containers :
    /\ RegisteredAs(c, "A", Singleton) /\ RegisteredAs(c, "B", Singleton)
    /\ Called("resolve", c, "A")
    /\ Len(trace) = 2
    /\ Len(returned[c]["B"]) = 1
    /\ heap[returned[c]["B"][1]].args = <<last.val>>

\* the token the metadata names for position k (1-based) of ctor's constructor
ExpectedToken(ctor, k) ==
  IF (k - 1) \in DOMAIN InjectionTokens(ctor)
  THEN InjectionTokens(ctor)[k - 1]
  ELSE ParamTypes(ctor)[k]

\* the types whose token overrides all lie within their declared parameters
InRange(ctor) ==
  \A idx \in DOMAIN InjectionTokens(ctor) : idx < Len(ParamTypes(ctor))

\* C7: a token override at an in-range index i makes create resolve the
\* override token in place of the declared type of position i, which is not
\* resolved; the value goes to argument i and every other position is resolved
\* from its declared type.
C7_OverrideByPosition ==
  \A ctor \in {t \in TypeTokens : InRange(t)} :
    \A i \in Constructions(ctor) :
      /\ DirectTokens(i) = [k \in 1..Len(ParamTypes(ctor)) |-> ExpectedToken(ctor, k)]
      /\ heap[trace[i].val].args = DirectValues(i)
      /\ Len(DirectValues(i)) = Len(ParamTypes(ctor))

\* C(b: B, a: A), whose parameter 0 is bound to N, was built while B has no
\* provider
C7_Witness ==
  \E c \in containers :
    /\ Called("resolve", c, "C")
    /\ last.outcome = "ok"
    /\ ~Registered(c, "B")
    /\ Constructions("C") # {}
    /\ heap[last.val].args = <<returned[c]["N"][1], returned[c]["A"][1]>>

\* C8: a token override whose index lies outside the declared parameters has
\* no effect: create resolves exactly the declared parameter types, does not
\* resolve the override token (so it succeeds when that token has no
\* provider), and calls the constructor with the declared number of arguments.
C8_OutOfRangeOverrideIgnored ==
  \A c \in containers :
    \A ctor \in {t \in TypeTokens : ~InRange(t)} :
      /\ \A i \in Constructions(ctor) :
           /\ DirectTokens(i) = ParamTypes(ctor)
           /\ Len(heap[trace[i].val].args) = Len(ParamTypes(ctor))
      /\ ( /\ Called("resolve", c, ctor)
           /\ dependencies[c][ctor].kind = "create"
           /\ \A k \in DOMAIN ParamTypes(ctor) : Registered(c, ParamTypes(ctor)[k])
           /\ \A i \in DOMAIN trace : trace[i].ev # "raise" )
         => last.outcome = "ok"

\* the injection tokens of ctor whose index is past the declared parameters,
\* in index order
RECURSIVE Ascending(_)
Ascending(S) ==
  IF S = {} THEN <<>>
  ELSE LET lo == CHOOSE x \in S : \A y \in S : x <= y
       IN <<lo>> \o Ascending(S \ {lo})

PastTheEnd(ctor) ==
  Ascending({idx \in DOMAIN InjectionTokens(ctor) : idx >= Len(ParamTypes(ctor))})

\* C8, amended: a token override whose index lies outside the declared
\* parameters extends the parameter list.  create resolves the declared
\* parameter types and then the override token, so that it fails when the
\* override token has no provider, and it calls the constructor with
\* index + 1 arguments: the override's value at its index and undefined at
\* the positions between the declared parameters and the override.
C8_OutOfRangeOverrideExtends ==
  \A c \in containers :
    \A ctor \in {t \in TypeTokens : ~InRange(t)} :
      LET declared == Len(ParamTypes(ctor))
          past == PastTheEnd(ctor)
      IN /\ \A i \in Constructions(ctor) :
              LET args == heap[trace[i].val].args
              IN /\ DirectTokens(i) =
                      ParamTypes(ctor) \o [k \in DOMAIN past |-> InjectionTokens(ctor)[past[k]]]
                 /\ Len(args) = past[Len(past)] + 1
                 /\ \A k \in 1..declared : args[k] = DirectValues(i)[k]
                 /\ \A k \in DOMAIN past : args[past[k] + 1] = DirectValues(i)[declared + k]
                 /\ \A k \in (declared + 1)..Len(args) :
                      (k - 1) \notin DOMAIN InjectionTokens(ctor) => args[k] = Undefined
         /\ ( /\ Called("resolve", c, ctor)
              /\ dependencies[c][ctor].kind = "create"
              /\ \A k \in DOMAIN ParamTypes(ctor) : Registered(c, ParamTypes(ctor)[k])
              /\ ~Registered(c, InjectionTokens(ctor)[past[1]])
              /\ \A i \in DOMAIN trace : trace[i].ev # "raise" )
            => /\ last.outcome = "unregistered"
               /\ trace[Len(trace)] =
                    Event("throw", c, InjectionTokens(ctor)[past[1]], Undefined, 2)

\* D(a: A), which carries the token N for index 2, was built with three
\* arguments
C8_Witness ==
  \E c \in containers :
    /\ Called("resolve", c, "D")
    /\ last.outcome = "ok"
    /\ Constructions("D") # {}
    /\ Len(heap[last.val].args) = 3
    /\ heap[last.val].args[2] = Undefined
    /\ heap[last.val].args[3] = returned[c]["N"][Len(returned[c]["N"])]

\* C9: containers are isolated.  A call on one container leaves the registry
\* and the cache of every other container as they were, a container made by
\* newContainer() starts empty, two containers never hold the same object
\* in their caches, and a token resolves in a container only through the
\* provider registered in that container.
C9_ContainersIsolated ==
  [][/\ \A c, d \in containers :
          (last'.c = c /\ d # c) =>
             /\ dependencies'[d] = dependencies[d]
             /\ instances'[d] = instances[d]
             /\ invoked'[d] = invoked[d]
             /\ returned'[d] = returned[d]
     /\ \A d \in containers' \ containers :
          /\ \A t \in Tokens : ~Registered(d, t)' /\ instances'[d][t] = NotCached
          /\ UNCHANGED <<dependencies, instances>>
     /\ \A c, d \in containers', t, u \in Tokens :
          (c # d /\ instances'[c][t] > Undefined) => instances'[c][t] # instances'[d][u]
     /\ \A c \in containers', t \in Tokens :
          (Called("resolve", c, t)' /\ calls' = calls + 1) =>
             /\ ~Registered(c, t) => last'.outcome = "unregistered"
             /\ \A i \in DOMAIN trace' : trace'[i].c = c]_vars

\* the same type is a cached Singleton in two containers, as two objects
C9_Witness ==
  \E c, d \in containers :
    /\ c # d
    /\ RegisteredAs(c, "A", Singleton) /\ RegisteredAs(d, "A", Singleton)
    /\ instances[c]["A"] > Undefined
    /\ instances[d]["A"] > Undefined
    /\ instances[c]["A"] # instances[d]["A"]

\* a second entry of the Singleton wrapper of (c, t) during the last call,
\* made while the first entry had not yet stored its result
EnteredBeforeStored(c, t) ==
  \E i, j \in Events("resolve", c, t) :
    /\ i < j
    /\ trace[i + 1].ev = "invoke"
    /\ \A k \in Events("store", c, t) : k > j

\* C10: when the Singleton wrapper of t is entered again before the first
\* entry has stored its result, the raw provider still runs at most once and
\* every caller gets the same instance.
C10_ReentrantSingletonCreatedOnce ==
  \A c \in containers, t \in Tokens :
    (IsSingleton(c, t) /\ EnteredBeforeStored(c, t)) =>
      /\ Cardinality(Events("invoke", c, t)) <= 1
      /\ \A i, j \in Events("return", c, t) : trace[i].val = trace[j].val

\* C11: registration is terminal and a failed registration changes nothing.  A
\* registered token keeps the provider and scope of its first successful
\* registration through every later call, and a provide or register that
\* fails as a duplicate leaves the registry, the cache and the objects as
\* they were.
C11_RegistrationTerminal ==
  [][/\ \A c \in containers, t \in Tokens :
          Registered(c, t) =>
             /\ dependencies'[c][t] = dependencies[c][t]
             /\ scopeArg'[c][t] = scopeArg[c][t]
     /\ (last'.op = "provide" /\ last'.outcome = "duplicate" /\ calls' = calls + 1) =>
          /\ Registered(last'.c, last'.tok)
          /\ UNCHANGED <<dependencies, instances, heap, fired, invoked, returned>>]_vars

\* a registration has failed as a duplicate for a token whose Singleton
\* instance is cached, and the cached instance is still the one resolve
\* returned
C11_Witness ==
  \E c \in containers, t \in Tokens :
    /\ Called("provide", c, t)
    /\ last.outcome = "duplicate"
    /\ IsSingleton(c, t)
    /\ instances[c][t] > Undefined
    /\ returned[c][t] = <<instances[c][t]>>

\* C12: provide called without a scope registers the token as Singleton.  The
\* provider it stores is the memoizing one that Scope.Singleton stores; a
\* resolve by the client that finds the instance cached returns it without
\* running any provider, and one that finds the cache empty leaves the
\* instance it returns in the cache.
C12_DefaultScopeIsSingleton ==
  [][\A c \in containers, t \in Tokens :
       scopeArg'[c][t] = Unspecified =>
          /\ dependencies'[c][t].singleton
          /\ \A kind \in CustomProviders \cup {"create"} :
               (scopeArg[c][t] = "" /\ dependencies'[c][t].kind = kind) =>
                  dependencies' = [dependencies EXCEPT
                                     ![c][t] = [singleton |-> TRUE, kind |-> kind]]
          /\ (Called("resolve", c, t)' /\ calls' = calls + 1) =>
               IF instances[c][t] # NotCached
               THEN /\ last'.outcome = "ok"
                    /\ last'.val = instances[c][t]
                    /\ UNCHANGED <<instances, heap, invoked>>
               ELSE last'.outcome = "ok" => instances'[c][t] = last'.val]_vars

\* a token provided without a scope was resolved twice by the client: one
\* provider run, one instance
C12_Witness ==
  \E c \in containers, t \in Tokens :
    /\ scopeArg[c][t] = Unspecified
    /\ dependencies[c][t].kind = "fresh"
    /\ Called("resolve", c, t)
    /\ Len(returned[c][t]) = 2
    /\ returned[c][t][1] = returned[c][t][2]
    /\ invoked[c][t] = 1

\* C13: instances are created lazily.  provide and register run no provider
\* and no constructor and leave the cache alone; while no provider has run
\* nothing is cached and no object exists; a provider runs only during a
\* resolve, right after resolve was entered for its token; and the first
\* resolve that reaches a registered token whose provider never ran runs it.
C13_LazyCreation ==
  [][/\ (last'.op = "provide" /\ calls' = calls + 1) =>
          /\ trace' = <<>>
          /\ UNCHANGED <<instances, heap, fired, invoked, returned>>
     /\ (\A c \in containers, t \in Tokens : invoked'[c][t] = 0) =>
          /\ heap' = <<>>
          /\ \A c \in containers, t \in Tokens : instances'[c][t] = NotCached
     /\ \A c \in containers, t \in Tokens :
          /\ invoked'[c][t] > invoked[c][t] =>
               /\ last'.op = "resolve"
               /\ \A i \in Events("invoke", c, t)' :
                    i > 1 /\ trace'[i - 1].ev = "resolve" /\ trace'[i - 1].tok = t
          /\ (invoked[c][t] = 0 /\ Registered(c, t) /\ Events("resolve", c, t)' # {}) =>
               invoked'[c][t] >= 1]_vars

\* after two registrations that ran nothing, the first resolve has built both
\* Singletons
C13_Witness ==
  \E c \in containers :
    /\ RegisteredAs(c, "A", Singleton) /\ RegisteredAs(c, "B", Singleton)
    /\ Called("resolve", c, "B")
    /\ calls = 3
    /\ invoked[c]["A"] = 1 /\ invoked[c]["B"] = 1
    /\ Len(heap) = 2

\* the positions in the trace of the events `ev` that the create call ending
\* at position i made itself, in order
DirectPositions(i, ev) ==
  Ascending({j \in (InvokeOf(i) + 1)..(i - 1) :
               trace[j].ev = ev /\ trace[j].depth = trace[i].depth + 1})

\* the tokens the metadata of ctor names, in parameter order
ExpectedTokens(ctor) ==
  [k \in 1..Len(ParamTypes(ctor)) |-> ExpectedToken(ctor, k)]
    \o [k \in DOMAIN PastTheEnd(ctor) |-> InjectionTokens(ctor)[PastTheEnd(ctor)[k]]]

\* C14: create resolves the (possibly overridden) parameter tokens depth-first
\* in parameter order: the resolution of a parameter, with everything it
\* resolves in turn, is over before the next one starts, and the constructor
\* runs only after the last one, with the values in parameter order.
C14_ResolutionOrder ==
  \A ctor \in TypeTokens :
    \A i \in Constructions(ctor) :
      LET R == DirectPositions(i, "resolve")
          T == DirectPositions(i, "return")
          n == Len(ExpectedTokens(ctor))
          args == heap[trace[i].val].args
      IN /\ Len(R) = n /\ Len(T) = n
         /\ \A k \in 1..n :
              /\ trace[R[k]].tok = ExpectedTokens(ctor)[k]
              /\ trace[T[k]].tok = ExpectedTokens(ctor)[k]
              /\ R[k] < T[k]
              /\ \A j \in R[k]..T[k] : trace[j].depth > trace[i].depth
              /\ k = 1 => R[k] = InvokeOf(i) + 1
              /\ k > 1 => R[k] = T[k - 1] + 1
              /\ k = n => T[k] = i - 1
         /\ n = 0 => InvokeOf(i) = i - 1
         /\ \A k \in 1..Len(ParamTypes(ctor)) : args[k] = trace[T[k]].val
         /\ \A k \in DOMAIN PastTheEnd(ctor) :
              args[PastTheEnd(ctor)[k] + 1] = trace[T[Len(ParamTypes(ctor)) + k]].val

\* C was built from a named token and a type that were both created on the
\* way, the type's constructor running between the two ends of its resolution
C14_Witness ==
  \E c \in containers :
    /\ Called("resolve", c, "C")
    /\ last.outcome = "ok"
    /\ RegisteredAs(c, "A", Singleton) \/ RegisteredAs(c, "A", Prototype)
    /\ \E i \in Constructions("C"), j \in Constructions("A") :
         /\ DirectTokens(i) = <<"N", "A">>
         /\ DirectPositions(i, "resolve")[2] < j
         /\ j < DirectPositions(i, "return")[2]
         /\ \E k \in Events("new", c, "Object") : k < DirectPositions(i, "resolve")[2]

\* the last call was a resolve by the client that threw
Failed(c, t) == Called("resolve", c, t) /\ last.outcome # "ok"

CustomProvided(c, t) ==
  t \in TypeTokens /\ Registered(c, t) /\ dependencies[c][t].kind = "fresh"

\* C16: resolving a type registered through provide with a custom provider
\* invokes only that provider: no constructor parameter of the type is
\* resolved, so the resolve succeeds when they are unregistered, and the
\* type's own constructor is not invoked.
C16_CustomProviderBypassesResolver ==
  \A c \in containers, t \in TypeTokens :
    CustomProvided(c, t) =>
      /\ \A j \in Events("invoke", c, t) :
           /\ j < Len(trace)
           /\ trace[j + 1] =
                Event("new", c, "Object", trace[j + 1].val, trace[j].depth)
      /\ Constructions(t) = {}
      /\ Called("resolve", c, t) =>
           /\ last.outcome = "ok"
           /\ \A i \in DOMAIN trace : trace[i].ev = "resolve" => trace[i].tok = t
           /\ last.val > Undefined => heap[last.val].ctor = "Object"

\* B(a: A) is provided with a custom provider, A has no provider, and
\* resolve(B) has returned the custom provider's object
C16_Witness ==
  \E c \in containers :
    /\ CustomProvided(c, "B")
    /\ ~Registered(c, "A")
    /\ Called("resolve", c, "B")
    /\ last.outcome = "ok"
    /\ Events("invoke", c, "B") # {}
    /\ heap[last.val] = [ctor |-> "Object", args |-> <<>>]

\* the tokens the constructor of t asks for, when t is registered through
\* register
Deps(c, t) ==
  IF Registered(c, t) /\ dependencies[c][t].kind = "create"
  THEN {getParams(t)[i] : i \in DOMAIN getParams(t)} \ {Hole}
  ELSE {}

RECURSIVE ReachN(_, _, _)
ReachN(c, S, n) ==
  IF n = 0 THEN S
  ELSE ReachN(c, S \cup UNION {Deps(c, u) : u \in S}, n - 1)

\* the tokens reachable from the tokens of S through constructor parameters
Reach(c, S) == ReachN(c, S, Cardinality(Tokens))

\* t is on a cycle of constructor dependencies between register-ed types
OnCycle(c, t) == t \in Reach(c, Deps(c, t))

\* the provider of u returns when it is invoked
Returning(c, u) ==
  /\ Registered(c, u)
  /\ dependencies[c][u].kind = "throwOnce" => fired[c][u]

\* the largest nesting depth of the resolve calls of the last call
DepthReached == MaxOf({0} \cup {trace[i].depth : i \in DOMAIN trace})

\* C17: there is no cycle detection.  A resolve of a type on a cycle of
\* constructor dependencies between register-ed types nests resolve calls
\* until the call stack is exhausted: it returns no instance, runs no
\* constructor of the cycle and caches nothing for it.  A resolve of a token
\* from which no cycle is reachable and whose reachable tokens all have
\* returning providers returns.
C17_NoCycleDetection ==
  [][\A c \in containers, t \in Tokens :
       (Called("resolve", c, t)' /\ calls' = calls + 1) =>
          /\ OnCycle(c, t) =>
               /\ last'.outcome = "overflow"
               /\ DepthReached' = MaxDepth
               /\ \A d \in 1..MaxDepth :
                    \E i \in Events("resolve", c, t)' : trace'[i].depth = d
               /\ Events("return", c, t)' = {}
               /\ \A u \in Reach(c, {t}) :
                    /\ Constructions(u)' = {}
                    /\ instances[c][u] = NotCached
                    /\ instances'[c][u] = NotCached
               /\ heap' = heap
          /\ ( /\ \A u \in Reach(c, {t}) : ~OnCycle(c, u) /\ Returning(c, u) ) =>
               /\ last'.outcome = "ok"
               /\ DepthReached' < MaxDepth]_vars

\* E(e: E) is registered through register and resolve(E) has exhausted the
\* call stack without constructing an E
C17_Witness ==
  \E c \in containers :
    /\ OnCycle(c, "E")
    /\ Called("resolve", c, "E")
    /\ last.outcome = "overflow"
    /\ DepthReached = MaxDepth
    /\ Constructions("E") = {}
    /\ instances[c]["E"] = NotCached

\* the token whose lookup raised the unregistered-token error of the last call
Offending == trace[Len(trace)].tok

\* C18: when a resolve fails because a token d, the resolved token or one
\* reached through its parameters, has no provider, the error the caller gets
\* is the one raised for d, unchanged, and it names d.
C18_ErrorNamesOffendingToken ==
  last.outcome = "unregistered" =>
    /\ trace[Len(trace)].ev = "throw"
    /\ ~Registered(last.c, Offending)
    /\ Offending \in Reach(last.c, {last.tok})
    /\ last.err = Offending

\* C18, for the type tokens, and without the name for the named tokens:
\* recorded to show what the violation of C18 rests on.
C18_ErrorNamesOffendingType ==
  last.outcome = "unregistered" =>
    /\ trace[Len(trace)].ev = "throw"
    /\ ~Registered(last.c, Offending)
    /\ Offending \in Reach(last.c, {last.tok})
    /\ Offending \in TypeTokens => last.err = Offending
    /\ Offending \in NamedTokens => last.err = "undefined"

\* the values of a sequence
Range(seq) == {seq[i] : i \in DOMAIN seq}

\* C19: when the provider or the constructor of a Singleton token t throws,
\* the error reaches the caller of resolve(t) and nothing is cached for t; a
\* resolve(t) that finds t uncached invokes the provider again, and t is
\* cached only by an invocation that returns, after which the provider is
\* not invoked any more.
C19_SingletonProviderThrows ==
  [][\A c \in containers, t \in Tokens :
       (Called("resolve", c, t)' /\ calls' = calls + 1 /\ IsSingleton(c, t)) =>
          /\ instances[c][t] = NotCached =>
               /\ invoked'[c][t] > invoked[c][t]
               /\ trace'[2] = Event("invoke", c, t, Undefined, 1)
               /\ last'.outcome # "ok" =>
                    /\ instances'[c][t] = NotCached
                    /\ returned'[c][t] = returned[c][t]
                    /\ last'.outcome \in {"threw", "unregistered", "overflow"}
               /\ last'.outcome = "ok" => instances'[c][t] = last'.val
          /\ instances[c][t] # NotCached =>
               /\ last'.outcome = "ok"
               /\ last'.val = instances[c][t]
               /\ invoked'[c][t] = invoked[c][t]
               /\ instances'[c][t] = instances[c][t]
          /\ instances'[c][t] # NotCached =>
               instances'[c][t] \in Range(returned'[c][t])]_vars

\* the provider of the Singleton A threw on the first resolve(A), which
\* cached nothing, and returned on the second, which cached its result
C19_Witness ==
  \E c \in containers :
    /\ IsSingleton(c, "A")
    /\ dependencies[c]["A"].kind = "throwOnce"
    /\ Called("resolve", c, "A")
    /\ last.outcome = "ok"
    /\ invoked[c]["A"] = 2
    /\ Len(returned[c]["A"]) = 1
    /\ instances[c]["A"] = last.val

\* the A that the cached B of container c holds
HeldA(c) == heap[instances[c]["B"]].args[1]

\* B(a: A) is registered through register as Singleton and A is Prototype
SingletonOverPrototype(c) ==
  RegisteredAs(c, "B", Singleton) /\ IsPrototype(c, "A")

\* C20: a Singleton B(a: A) registered through register over a Prototype A
\* captures one A: the provider of A is invoked once on behalf of B, during the
\* first resolve(B), and never after; every resolve(B) returns the same B,
\* holding the same A; no other resolve of A returns the A that B holds.
C20_SingletonCapturesPrototype ==
  [][\A c \in containers :
       (SingletonOverPrototype(c) /\ calls' = calls + 1) =>
          /\ Called("resolve", c, "B")' =>
               /\ Cardinality(Events("invoke", c, "A")') =
                    (IF invoked[c]["B"] = 0 THEN 1 ELSE 0)
               /\ instances[c]["B"] # NotCached =>
                    last'.val = instances[c]["B"]
          /\ instances[c]["B"] # NotCached =>
               /\ instances'[c]["B"] = instances[c]["B"]
               /\ HeldA(c)' = HeldA(c)
               /\ \A i \in Events("return", c, "A")' : trace'[i].val # HeldA(c)]_vars

\* C20, amended: the provider of A is invoked once during each resolve(B)
\* that finds B uncached, which is more than once when a resolve(B) fails, and
\* never once B is cached; the resolve(B) that constructs B gives it an A
\* that no earlier resolve returned; from then on every resolve(B) returns
\* the same B, holding the same A, and no other resolve of A returns that A.
C20_SingletonCapturesPrototypeOnConstruction ==
  [][\A c \in containers :
       (SingletonOverPrototype(c) /\ calls' = calls + 1) =>
          /\ Called("resolve", c, "B")' =>
               /\ Cardinality(Events("invoke", c, "A")') =
                    (IF instances[c]["B"] = NotCached THEN 1 ELSE 0)
               /\ instances[c]["B"] # NotCached =>
                    last'.val = instances[c]["B"]
               /\ (instances[c]["B"] = NotCached /\ last'.outcome = "ok") =>
                    /\ instances'[c]["B"] = last'.val
                    /\ heap'[last'.val].ctor = "B"
                    /\ Len(heap'[last'.val].args) = 1
                    /\ HeldA(c)' > Len(heap)
                    /\ HeldA(c)' \notin Range(returned[c]["A"])
                    /\ Cardinality({i \in Events("return", c, "A")' :
                                      trace'[i].val = HeldA(c)'}) = 1
               /\ last'.outcome # "ok" => instances'[c]["B"] = NotCached
          /\ instances[c]["B"] # NotCached =>
               /\ instances'[c]["B"] = instances[c]["B"]
               /\ HeldA(c)' = HeldA(c)
               /\ \A i \in Events("return", c, "A")' : trace'[i].val # HeldA(c)]_vars

\* the first resolve(B) failed in the provider of the Prototype A, the second
\* invoked that provider again and constructed the B that is now cached
C20_Witness ==
  \E c \in containers :
    /\ SingletonOverPrototype(c)
    /\ Called("resolve", c, "B")
    /\ last.outcome = "ok"
    /\ instances[c]["B"] = last.val
    /\ invoked[c]["B"] = 2
    /\ invoked[c]["A"] = 2
    /\ HeldA(c) = last.val - 1

====
